---- MODULE Spec2Model ----
(***************************************************************************)
(* A model of packages/sol-tracing-utils/src/source_maps.ts:              *)
(*   getLocationByOffset  - the offset -> (line, column) indexer           *)
(*   parseSourceMap       - the delta-encoded source map decoder           *)
(* Strings are sequences of one-character strings.  A JavaScript value     *)
(* that may be undefined or NaN is a tagged record.                        *)
(***************************************************************************)
EXTENDS Integers, Sequences, FiniteSets, TLC

VARIABLES
    sourceCodes,                  \* parameter: fileIndex -> source text | undefined
    srcMap,                       \* parameter: the source map string
    sources,                      \* parameter: fileIndex -> file name
    pcToInstructionIndex,         \* result of getPcToInstructionIndexMapping(bytecode)
    phase,                        \* where parseSourceMap / getLocationByOffset is
    locationByOffsetByFileIndex,  \* local of parseSourceMap
    entries,                      \* local: srcMap.split(';')
    i,                            \* index of the next entry visited by _.each
    lastParsedEntry,              \* local of parseSourceMap
    parsedEntries,                \* history: parsedEntry of every visited entry
    instructionIndexToSourceRange,\* local of parseSourceMap
    pcsToSourceRange,             \* the returned table
    error,                        \* the thrown Error
    str,                          \* parameter of getLocationByOffset
    locationByOffset              \* the table returned by getLocationByOffset

vars == <<sourceCodes, srcMap, sources, pcToInstructionIndex, phase,
          locationByOffsetByFileIndex, entries, i, lastParsedEntry, parsedEntries,
          instructionIndexToSourceRange, pcsToSourceRange, error, str, locationByOffset>>

----------------------------------------------------------------------------
(* JavaScript values *)

RADIX == 10

Undefined == [k |-> "undefined", n |-> 0]
NaN == [k |-> "NaN", n |-> 0]
Num(n) == [k |-> "number", n |-> n]

UndefinedString == [k |-> "undefined", s |-> <<>>]
Str(s) == [k |-> "string", s |-> s]

UndefinedLocation == [k |-> "undefined", line |-> 0, column |-> 0]
Location(line, column) == [k |-> "location", line |-> line, column |-> column]

UndefinedSourceRange ==
    [k |-> "undefined", start |-> UndefinedLocation, end |-> UndefinedLocation,
     fileName |-> UndefinedString]

isUndefined(v) == v.k = "undefined"
isNaN(v) == v.k = "NaN"

\* a + b on values that are numbers or undefined
Plus(a, b) == IF a.k = "number" /\ b.k = "number" THEN Num(a.n + b.n) ELSE NaN

\* obj[key] on a table keyed by numbers. A key that is undefined or NaN reads the
\* property "undefined" or "NaN", which no table here has.
Get(obj, key, undefinedValue) ==
    IF key.k = "number" /\ key.n \in DOMAIN obj THEN obj[key.n] ELSE undefinedValue

----------------------------------------------------------------------------
(* String.prototype.split and parseInt *)

RECURSIVE SplitFrom(_, _, _, _)
SplitFrom(s, sep, pos, cur) ==
    IF pos > Len(s) THEN <<cur>>
    ELSE IF s[pos] = sep THEN <<cur>> \o SplitFrom(s, sep, pos + 1, <<>>)
    ELSE SplitFrom(s, sep, pos + 1, Append(cur, s[pos]))

\* s.split(sep) for a one-character separator: "" splits into <<"">>
Split(s, sep) == SplitFrom(s, sep, 1, <<>>)

\* the destructured element at position n (1-based) of an array, or undefined
Element(arr, n) == IF n <= Len(arr) THEN Str(arr[n]) ELSE UndefinedString

Digits == <<"0", "1", "2", "3", "4", "5", "6", "7", "8", "9">>
WhiteSpace == {" ", "\n"}
IsDigit(c) == \E d \in 1..RADIX : Digits[d] = c
DigitValue(c) == (CHOOSE d \in 1..RADIX : Digits[d] = c) - 1

RECURSIVE SkipWhiteSpace(_, _)
SkipWhiteSpace(s, pos) ==
    IF pos <= Len(s) /\ s[pos] \in WhiteSpace THEN SkipWhiteSpace(s, pos + 1) ELSE pos

RECURSIVE DigitsValue(_, _, _)
DigitsValue(s, pos, acc) ==
    IF pos <= Len(s) /\ IsDigit(s[pos])
    THEN DigitsValue(s, pos + 1, acc * RADIX + DigitValue(s[pos]))
    ELSE acc

\* the property key of a non-negative integer: its decimal digits
RECURSIVE ToKey(_)
ToKey(n) == IF n < RADIX THEN <<Digits[n + 1]>> ELSE Append(ToKey(n \div RADIX), Digits[(n % RADIX) + 1])

\* parseInt(v, RADIX): leading white space is skipped, then an optional sign, then
\* the longest prefix of digits; NaN when there is no digit there. parseInt(undefined)
\* parses the text "undefined" and is NaN.
parseInt(v) ==
    IF isUndefined(v) THEN NaN
    ELSE LET s == v.s
             p == SkipWhiteSpace(s, 1)
             signed == p <= Len(s) /\ s[p] \in {"+", "-"}
             q == IF signed THEN p + 1 ELSE p
         IN  IF q <= Len(s) /\ IsDigit(s[q])
             THEN Num((IF signed /\ s[p] = "-" THEN -1 ELSE 1) * DigitsValue(s, q, 0))
             ELSE NaN

----------------------------------------------------------------------------
(* getLocationByOffset *)

\* LocationLoop with the column counted on through a newline
RECURSIVE LocationLoop_ColumnKept(_, _, _)
LocationLoop_ColumnKept(s, currentOffset, table) ==
    IF currentOffset = Len(s) \/ currentOffset \notin DOMAIN table THEN table
    ELSE LET location == table[currentOffset]
             isNewline == s[currentOffset + 1] = "\n"
         IN  LocationLoop_ColumnKept(s, currentOffset + 1,
                 (currentOffset + 1 :>
                     Location(location.line + (IF isNewline THEN 1 ELSE 0),
                              location.column + 1))
                 @@ table)

\* LocationLoop with the line left as it is at a newline
RECURSIVE LocationLoop_LineKept(_, _, _)
LocationLoop_LineKept(s, currentOffset, table) ==
    IF currentOffset = Len(s) \/ currentOffset \notin DOMAIN table THEN table
    ELSE LET location == table[currentOffset]
             isNewline == s[currentOffset + 1] = "\n"
         IN  LocationLoop_LineKept(s, currentOffset + 1,
                 (currentOffset + 1 :>
                     Location(location.line, IF isNewline THEN 0 ELSE location.column + 1))
                 @@ table)

\* lines 21-29: the loop, entered with the characters before currentOffset consumed.
\* The table already has the key currentOffset, which line 22 reads.
RECURSIVE LocationLoop(_, _, _)
LocationLoop(s, currentOffset, table) ==
    IF currentOffset = Len(s) \/ currentOffset \notin DOMAIN table THEN table
    ELSE LET location == table[currentOffset]
             isNewline == s[currentOffset + 1] = "\n"
         IN  LocationLoop(s, currentOffset + 1,
                 (currentOffset + 1 :>
                     Location(location.line + (IF isNewline THEN 1 ELSE 0),
                              IF isNewline THEN 0 ELSE location.column + 1))
                 @@ table)

getLocationByOffset(s) == LocationLoop(s, 0, 0 :> Location(1, 0))

----------------------------------------------------------------------------
(* parseSourceMap: the pure parts *)

EmptyLocationByOffset == [o \in {} |-> UndefinedLocation]

\* lines 50-52: one table per key of sourceCodes; a key whose value is undefined
\* gets the empty table {}
BuildLocationTables(codes) ==
    [fileIndex \in DOMAIN codes |->
        IF isUndefined(codes[fileIndex]) THEN EmptyLocationByOffset
        ELSE getLocationByOffset(codes[fileIndex].s)]

\* ResolveField written xIfExists || lastParsedEntry.x: a field of 0 is inherited too
ResolveField_Falsy(ifExists, last) ==
    IF isNaN(ifExists) \/ ifExists = Num(0) THEN last ELSE ifExists

\* lines 64-66: _.isNaN(xIfExists) ? lastParsedEntry.x : xIfExists
ResolveField(ifExists, last) == IF isNaN(ifExists) THEN last ELSE ifExists

\* lines 58-71: the parsedEntry of one raw entry, given lastParsedEntry
ParseEntry(entry, last) ==
    LET fields == Split(entry, ":")
        instructionIndexIfExists == parseInt(Element(fields, 1))
        lengthIfExists == parseInt(Element(fields, 2))
        fileIndexIfExists == parseInt(Element(fields, 3))
    IN  [offset |-> ResolveField(instructionIndexIfExists, last.offset),
         length |-> ResolveField(lengthIfExists, last.length),
         fileIndex |-> ResolveField(fileIndexIfExists, last.fileIndex)]

\* line 72: fileIndex !== -1 && !_.isUndefined(locationByOffsetByFileIndex[fileIndex])
HasLocationTable(parsedEntry, tables) ==
    /\ parsedEntry.fileIndex # Num(-1)
    /\ parsedEntry.fileIndex.k = "number"
    /\ parsedEntry.fileIndex.n \in DOMAIN tables

\* SourceRangeOf with the end read at length instead of offset + length
SourceRangeOf_EndAtLength(parsedEntry, tables, names) ==
    LET table == tables[parsedEntry.fileIndex.n]
    IN  [k |-> "range",
         start |-> Get(table, parsedEntry.offset, UndefinedLocation),
         end |-> Get(table, parsedEntry.length, UndefinedLocation),
         fileName |-> Get(names, parsedEntry.fileIndex, UndefinedString)]

\* lines 73-80
SourceRangeOf(parsedEntry, tables, names) ==
    LET table == tables[parsedEntry.fileIndex.n]
    IN  [k |-> "range",
         start |-> Get(table, parsedEntry.offset, UndefinedLocation),
         end |-> Get(table, Plus(parsedEntry.offset, parsedEntry.length), UndefinedLocation),
         fileName |-> Get(names, parsedEntry.fileIndex, UndefinedString)]

\* LocationOutOfRange that looks at the start alone
LocationOutOfRange_StartOnly(sourceRange) == isUndefined(sourceRange.start)

\* line 81
LocationOutOfRange(sourceRange) ==
    isUndefined(sourceRange.start) \/ isUndefined(sourceRange.end)

\* line 92: _.keys(pcToInstructionIndex)
Keys(obj) == {ToKey(n) : n \in DOMAIN obj}

\* RekeyByProgramCounter that leaves out the program counters with no source range
RekeyByProgramCounter_SkipUnmapped(pcToIndex, indexToRange) ==
    LET pcs == {parseInt(Str(programCounterKey)).n : programCounterKey \in Keys(pcToIndex)}
    IN  [pc \in {p \in pcs : pcToIndex[p] \in DOMAIN indexToRange} |->
            indexToRange[pcToIndex[pc]]]

\* lines 92-96: every key of pcToInstructionIndex gets instructionIndexToSourceRange
\* of its instruction index, undefined when that has no such key
RekeyByProgramCounter(pcToIndex, indexToRange) ==
    LET pcs == {parseInt(Str(programCounterKey)).n : programCounterKey \in Keys(pcToIndex)}
    IN  [pc \in pcs |-> Get(indexToRange, Num(pcToIndex[pc]), UndefinedSourceRange)]

----------------------------------------------------------------------------
(* parseSourceMap: the steps *)

NoTable == [f \in {} |-> EmptyLocationByOffset]
NoRanges == [x \in {} |-> UndefinedSourceRange]
NoError == [thrown |-> FALSE, fileName |-> UndefinedString]
EmptyObject == [offset |-> Undefined, length |-> Undefined, fileIndex |-> Undefined]

\* lines 47-55
Begin ==
    /\ phase = "called"
    /\ locationByOffsetByFileIndex' = BuildLocationTables(sourceCodes)
    /\ entries' = Split(srcMap, ";")
    /\ lastParsedEntry' = EmptyObject
    /\ instructionIndexToSourceRange' = NoRanges
    /\ i' = 0
    /\ phase' = "entries"
    /\ UNCHANGED <<sourceCodes, srcMap, sources, pcToInstructionIndex, parsedEntries,
                   pcsToSourceRange, error, str, locationByOffset>>

parsedEntry == ParseEntry(entries[i + 1], lastParsedEntry)

\* lines 56-84, 89: an entry with a location table and both locations found
EntryMapped ==
    /\ phase = "entries" /\ i < Len(entries)
    /\ HasLocationTable(parsedEntry, locationByOffsetByFileIndex)
    /\ LET sourceRange == SourceRangeOf(parsedEntry, locationByOffsetByFileIndex, sources)
       IN  /\ ~LocationOutOfRange(sourceRange)
           /\ instructionIndexToSourceRange' = (i :> sourceRange) @@ instructionIndexToSourceRange
    /\ lastParsedEntry' = parsedEntry
    /\ parsedEntries' = Append(parsedEntries, parsedEntry)
    /\ i' = i + 1
    /\ UNCHANGED <<sourceCodes, srcMap, sources, pcToInstructionIndex, phase,
                   locationByOffsetByFileIndex, entries, pcsToSourceRange, error,
                   str, locationByOffset>>

\* EntryThrows that checks an entry only when a program counter refers to it, and
\* passes over it otherwise
EntryThrows_OnlyIfReferenced ==
    /\ phase = "entries" /\ i < Len(entries)
    /\ HasLocationTable(parsedEntry, locationByOffsetByFileIndex)
    /\ LocationOutOfRange(SourceRangeOf(parsedEntry, locationByOffsetByFileIndex, sources))
    /\ parsedEntries' = Append(parsedEntries, parsedEntry)
    /\ IF \E p \in DOMAIN pcToInstructionIndex : pcToInstructionIndex[p] = i
       THEN /\ error' = [thrown |-> TRUE,
                         fileName |-> SourceRangeOf(parsedEntry, locationByOffsetByFileIndex,
                                                    sources).fileName]
            /\ phase' = "thrown"
            /\ UNCHANGED <<i, lastParsedEntry>>
       ELSE /\ i' = i + 1
            /\ lastParsedEntry' = parsedEntry
            /\ UNCHANGED <<error, phase>>
    /\ UNCHANGED <<sourceCodes, srcMap, sources, pcToInstructionIndex,
                   locationByOffsetByFileIndex, entries,
                   instructionIndexToSourceRange, pcsToSourceRange, str, locationByOffset>>

\* lines 56-82: an entry with a location table and a location missing: throw
EntryThrows ==
    /\ phase = "entries" /\ i < Len(entries)
    /\ HasLocationTable(parsedEntry, locationByOffsetByFileIndex)
    /\ LET sourceRange == SourceRangeOf(parsedEntry, locationByOffsetByFileIndex, sources)
       IN  /\ LocationOutOfRange(sourceRange)
           /\ error' = [thrown |-> TRUE, fileName |-> sourceRange.fileName]
    /\ parsedEntries' = Append(parsedEntries, parsedEntry)
    /\ phase' = "thrown"
    /\ UNCHANGED <<sourceCodes, srcMap, sources, pcToInstructionIndex,
                   locationByOffsetByFileIndex, entries, i, lastParsedEntry,
                   instructionIndexToSourceRange, pcsToSourceRange, str, locationByOffset>>

\* EntryUnmapped with lastParsedEntry = parsedEntry inside the if of line 72
EntryUnmapped_KeepsLast ==
    /\ phase = "entries" /\ i < Len(entries)
    /\ ~HasLocationTable(parsedEntry, locationByOffsetByFileIndex)
    /\ parsedEntries' = Append(parsedEntries, parsedEntry)
    /\ i' = i + 1
    /\ UNCHANGED <<sourceCodes, srcMap, sources, pcToInstructionIndex, phase,
                   locationByOffsetByFileIndex, entries, instructionIndexToSourceRange,
                   pcsToSourceRange, error, str, locationByOffset, lastParsedEntry>>

\* lines 56-72, 85-89: an entry with no location table
EntryUnmapped ==
    /\ phase = "entries" /\ i < Len(entries)
    /\ ~HasLocationTable(parsedEntry, locationByOffsetByFileIndex)
    /\ lastParsedEntry' = parsedEntry
    /\ parsedEntries' = Append(parsedEntries, parsedEntry)
    /\ i' = i + 1
    /\ UNCHANGED <<sourceCodes, srcMap, sources, pcToInstructionIndex, phase,
                   locationByOffsetByFileIndex, entries, instructionIndexToSourceRange,
                   pcsToSourceRange, error, str, locationByOffset>>

\* lines 91-97
Return ==
    /\ phase = "entries" /\ i = Len(entries)
    /\ pcsToSourceRange' = RekeyByProgramCounter(pcToInstructionIndex, instructionIndexToSourceRange)
    /\ phase' = "returned"
    /\ UNCHANGED <<sourceCodes, srcMap, sources, pcToInstructionIndex,
                   locationByOffsetByFileIndex, entries, i, lastParsedEntry, parsedEntries,
                   instructionIndexToSourceRange, error, str, locationByOffset>>

----------------------------------------------------------------------------
(* The calls of parseSourceMap that are explored *)

MaxEntries == 3

\* the texts of file 0 and file 1 when they have one
TextA == <<"a", "\n", "b">>
TextB == <<>>

FileNames == (0 :> Str(<<"A">>)) @@ (1 :> Str(<<"B">>))

\* sourceCodes: both files; file 0 alone; file 0 undefined; no file
SourceCodesChoices ==
    { (0 :> Str(TextA)) @@ (1 :> Str(TextB)),
      (0 :> Str(TextA)),
      (0 :> UndefinedString) @@ (1 :> Str(TextB)),
      [f \in {} |-> UndefinedString] }

\* sourceCodes and sources: every file named, and once file 1 without a name
FileChoices ==
    {<<codes, FileNames>> : codes \in SourceCodesChoices}
    \cup {<<(0 :> Str(TextA)) @@ (1 :> Str(TextB)), (0 :> FileNames[0])>>}

\* what getPcToInstructionIndexMapping may return: no instruction; two instructions;
\* two program counters with one index; an index past the entries
PcToInstructionIndexChoices ==
    { [p \in {} |-> 0],
      (0 :> 0) @@ (2 :> 1),
      (0 :> 1) @@ (2 :> 1),
      (0 :> 2) @@ (10 :> MaxEntries) }

\* the ';'-separated segments a source map is made of
RawEntries ==
    { <<>>,
      <<"0", ":", "1", ":", "0", ":", "-">>,
      <<"1", ":", "2">>,
      <<":", "3">>,
      <<"7", ":", ":", "-", "1">>,
      <<"0", ":", "0", ":", "1">>,
      <<"x", ":", "0", ":", "0">>,
      <<"1", "x", ":", "-", "1">> }

RECURSIVE Join(_)
Join(segments) ==
    IF Len(segments) = 1 THEN segments[1]
    ELSE segments[1] \o <<";">> \o Join(Tail(segments))

SrcMapChoices ==
    {Join(segments) : segments \in UNION {[1..n -> RawEntries] : n \in 1..MaxEntries}}

\* "10:5:0:-;;20:3:1:-" decoded against the text of C.sol
ExampleSource ==
    <<"c", "o", "n", "t", "r", "a", "c", "t", " ", "C", " ", "{",
      " ", "f", "u", "n", "c", "t", "i", "o", "n", " ", "f", "(",
      ")", " ", "p", "u", "b", "l", "i", "c", " ", "{", "}", " ",
      "}">>
ExampleSources == (0 :> Str(<<"C", ".", "s", "o", "l">>))
DeltaExampleSrcMap ==
    <<"1", "0", ":", "5", ":", "0", ":", "-", ";", ";", "2", "0", ":", "3", ":", "1", ":", "-">>
EndToEndExampleSrcMap == <<"0", ":", "1", "0", ":", "0", ":", "-">>

ExampleCalls ==
    { [sourceCodes |-> (0 :> Str(ExampleSource)), srcMap |-> m, sources |-> ExampleSources,
       pcToInstructionIndex |-> (0 :> 0)] : m \in {DeltaExampleSrcMap, EndToEndExampleSrcMap} }

Calls ==
    { [sourceCodes |-> fc[1], srcMap |-> m, sources |-> fc[2], pcToInstructionIndex |-> p] :
        fc \in FileChoices, m \in SrcMapChoices, p \in PcToInstructionIndexChoices }
    \cup ExampleCalls

Init ==
    /\ \E call \in Calls :
        /\ sourceCodes = call.sourceCodes
        /\ srcMap = call.srcMap
        /\ sources = call.sources
        /\ pcToInstructionIndex = call.pcToInstructionIndex
    /\ phase = "called"
    /\ locationByOffsetByFileIndex = NoTable
    /\ entries = <<>>
    /\ i = 0
    /\ lastParsedEntry = EmptyObject
    /\ parsedEntries = <<>>
    /\ instructionIndexToSourceRange = NoRanges
    /\ pcsToSourceRange = NoRanges
    /\ error = NoError
    /\ str = <<>>
    /\ locationByOffset = EmptyLocationByOffset

Next == Begin \/ EntryMapped \/ EntryThrows \/ EntryUnmapped \/ Return

Spec == Init /\ [][Next]_vars

\* the calls whose source map starts, as the compiler's do, with an entry that
\* supplies its offset, length and fileIndex
FirstEntryFull ==
    LET fields == Split(Split(srcMap, ";")[1], ":")
    IN  \A n \in 1..3 : ~isNaN(parseInt(Element(fields, n)))

InitFirstEntryFull == Init /\ FirstEntryFull

SpecFirstEntryFull == InitFirstEntryFull /\ [][Next]_vars

\* the calls whose sourceCodes holds a text under every key, as its type says
EverySourceIsText == \A f \in DOMAIN sourceCodes : ~isUndefined(sourceCodes[f])

InitEverySourceIsText == Init /\ EverySourceIsText

SpecEverySourceIsText == InitEverySourceIsText /\ [][Next]_vars

----------------------------------------------------------------------------
(* The calls of getLocationByOffset that are explored *)

MaxTextLen == 4

TextChars == {"a", "\r", "\n"}

\* "abc\ndef"
ExampleText == <<"a", "b", "c", "\n", "d", "e", "f">>

TextChoices == UNION {[1..n -> TextChars] : n \in 0..MaxTextLen} \cup {ExampleText}

\* lines 18-31
GetLocationByOffset ==
    /\ phase = "index-called"
    /\ locationByOffset' = getLocationByOffset(str)
    /\ phase' = "index-returned"
    /\ UNCHANGED <<sourceCodes, srcMap, sources, pcToInstructionIndex,
                   locationByOffsetByFileIndex, entries, i, lastParsedEntry, parsedEntries,
                   instructionIndexToSourceRange, pcsToSourceRange, error, str>>

IndexInit ==
    /\ str \in TextChoices
    /\ phase = "index-called"
    /\ locationByOffset = EmptyLocationByOffset
    /\ sourceCodes = [f \in {} |-> UndefinedString]
    /\ srcMap = <<>>
    /\ sources = [f \in {} |-> UndefinedString]
    /\ pcToInstructionIndex = [p \in {} |-> 0]
    /\ locationByOffsetByFileIndex = NoTable
    /\ entries = <<>>
    /\ i = 0
    /\ lastParsedEntry = EmptyObject
    /\ parsedEntries = <<>>
    /\ instructionIndexToSourceRange = NoRanges
    /\ pcsToSourceRange = NoRanges
    /\ error = NoError

IndexNext == GetLocationByOffset

IndexSpec == IndexInit /\ [][IndexNext]_vars

----------------------------------------------------------------------------
(* What the properties below are stated in: the inputs and the history of the  *)
(* visited entries. Position j (1-based) of parsedEntries is instruction index *)
(* j - 1.                                                                      *)

Visited == 1..Len(parsedEntries)

\* entry j threw: a throw ends the call, so it is the last one visited
Threw(j) == phase = "thrown" /\ j = Len(parsedEntries)

InTable(j) == (j - 1) \in DOMAIN instructionIndexToSourceRange

\* the line and column of offset o of a text, counted from the text itself
NewlinesBefore(text, o) == {q \in 1..o : text[q] = "\n"}
ExpectedLocation(text, o) ==
    Location(1 + Cardinality(NewlinesBefore(text, o)),
             o - (CHOOSE q \in NewlinesBefore(text, o) \cup {0} :
                     \A r \in NewlinesBefore(text, o) : r <= q))

\* sourceCodes has the key fileIndex, so the file has an offset table
HasOffsetTable(fileIndex) ==
    fileIndex.k = "number" /\ fileIndex.n \in DOMAIN sourceCodes

\* v is a key of the file's offset table: a number in 0..len(text)
IsOffsetOf(v, fileIndex) ==
    /\ v.k = "number"
    /\ sourceCodes[fileIndex.n].k = "string"
    /\ v.n \in 0..Len(sourceCodes[fileIndex.n].s)

InRange(e) ==
    /\ IsOffsetOf(e.offset, e.fileIndex)
    /\ IsOffsetOf(Plus(e.offset, e.length), e.fileIndex)

\* the source range of a resolved entry that has a text and is in range
ExpectedSourceRange(e) ==
    [k |-> "range",
     start |-> ExpectedLocation(sourceCodes[e.fileIndex.n].s, e.offset.n),
     end |-> ExpectedLocation(sourceCodes[e.fileIndex.n].s, e.offset.n + e.length.n),
     fileName |-> IF e.fileIndex.n \in DOMAIN sources THEN sources[e.fileIndex.n]
                  ELSE UndefinedString]

\* the n-th ':'-separated field of raw entry j parses as an integer
FieldParses(j, n) == ~isNaN(parseInt(Element(Split(entries[j], ":"), n)))
FieldValue(j, n) == parseInt(Element(Split(entries[j], ":"), n))

HasUnsetField(e) ==
    isUndefined(e.offset) \/ isUndefined(e.length) \/ isUndefined(e.fileIndex)

LexLess(a, b) == a.line < b.line \/ (a.line = b.line /\ a.column < b.column)

----------------------------------------------------------------------------
(* C1 *)

\* C1: a visited entry whose fileIndex is not -1 and has an offset table, and whose
\* offset or offset+length is not a key of that table, makes the decode fail: the
\* error names sources[fileIndex], the entry gets no range, and nothing is returned.
C1_OutOfRangeIsFatal ==
    \A j \in Visited :
        LET e == parsedEntries[j]
        IN  (e.fileIndex # Num(-1) /\ HasOffsetTable(e.fileIndex) /\ ~InRange(e))
            => /\ Threw(j)
               /\ error.thrown
               /\ error.fileName = Get(sources, e.fileIndex, UndefinedString)
               /\ ~InTable(j)
               /\ phase # "returned"
               /\ pcsToSourceRange = NoRanges
               /\ ~ENABLED Next

\* an entry whose start is in its file and whose end is past its text threw, after an
\* earlier entry had been given a range
C1_Witness ==
    /\ phase = "thrown"
    /\ Len(parsedEntries) >= 2
    /\ instructionIndexToSourceRange # NoRanges
    /\ LET e == parsedEntries[Len(parsedEntries)]
       IN  /\ HasOffsetTable(e.fileIndex)
           /\ IsOffsetOf(e.offset, e.fileIndex)
           /\ ~IsOffsetOf(Plus(e.offset, e.length), e.fileIndex)

----------------------------------------------------------------------------
(* C2 *)

NoSourceText(fileIndex) ==
    \/ fileIndex.k # "number"
    \/ fileIndex.n \notin DOMAIN sourceCodes
    \/ isUndefined(sourceCodes[fileIndex.n])

\* C2: a visited entry whose fileIndex is -1, or for whose fileIndex no source text
\* was supplied, is no key of instructionIndexToSourceRange and raises no error.
C2_NoSourceIsSilent ==
    \A j \in Visited :
        LET e == parsedEntries[j]
        IN  (e.fileIndex = Num(-1) \/ NoSourceText(e.fileIndex))
            => ~InTable(j) /\ ~Threw(j)

----------------------------------------------------------------------------
(* C3 *)

Semicolons(s) == Cardinality({q \in 1..Len(s) : s[q] = ";"})

Inherits(j, n, field) ==
    parsedEntries[j][field] =
        IF FieldParses(j, n) THEN FieldValue(j, n) ELSE parsedEntries[j - 1][field]

\* C3: every visited entry after the first has, field by field, its own value when
\* the field parses as an integer and the previous entry's resolved value otherwise
\* (an empty field and a malformed one alike); a call that returns has visited one
\* entry per ';'-separated segment; "10:5:0:-;;20:3:1:-" resolves to {10,5,0},
\* {10,5,0}, {20,3,1}.
C3_DeltaResolution ==
    /\ \A j \in Visited \ {1} :
        /\ Inherits(j, 1, "offset")
        /\ Inherits(j, 2, "length")
        /\ Inherits(j, 3, "fileIndex")
    /\ phase = "returned" => Len(parsedEntries) = Semicolons(srcMap) + 1
    /\ (phase = "returned" /\ srcMap = DeltaExampleSrcMap)
        => parsedEntries =
            << [offset |-> Num(10), length |-> Num(5), fileIndex |-> Num(0)],
               [offset |-> Num(10), length |-> Num(5), fileIndex |-> Num(0)],
               [offset |-> Num(20), length |-> Num(3), fileIndex |-> Num(1)] >>

\* an entry whose offset field is malformed took the previous offset, a number, and
\* its own length, while the entry before it was followed by an empty one
C3_Witness ==
    /\ phase = "returned"
    /\ \E j \in Visited \ {1} :
        /\ Split(entries[j], ":")[1] # <<>>
        /\ ~FieldParses(j, 1)
        /\ parsedEntries[j].offset = parsedEntries[j - 1].offset
        /\ parsedEntries[j].offset.k = "number"
        /\ FieldParses(j, 2)
        /\ parsedEntries[j].length # parsedEntries[j - 1].length
    /\ \E j \in Visited \ {1} :
        entries[j] = <<>> /\ parsedEntries[j] = parsedEntries[j - 1]

----------------------------------------------------------------------------
(* C4 *)

\* C4: an entry that still has an unset field (the first entry left it unset and no
\* entry has supplied it since) raises no error and gets no range, and a field stays
\* unset until an entry supplies it.
C4_UnsetIsUnmapped ==
    /\ \A j \in Visited :
        HasUnsetField(parsedEntries[j]) => ~Threw(j) /\ ~InTable(j)
    /\ \A j \in Visited \ {1} :
        /\ (isUndefined(parsedEntries[j - 1].offset) /\ ~FieldParses(j, 1))
            => isUndefined(parsedEntries[j].offset)
        /\ (isUndefined(parsedEntries[j - 1].length) /\ ~FieldParses(j, 2))
            => isUndefined(parsedEntries[j].length)
        /\ (isUndefined(parsedEntries[j - 1].fileIndex) /\ ~FieldParses(j, 3))
            => isUndefined(parsedEntries[j].fileIndex)

----------------------------------------------------------------------------
(* C5 *)

\* C5: a call that returns returns a table whose keys are exactly the program
\* counters of pcToInstructionIndex, and a program counter whose instruction index
\* has no source range is a key that carries undefined.
C5_SameProgramCounters ==
    phase = "returned" =>
        /\ DOMAIN pcsToSourceRange = DOMAIN pcToInstructionIndex
        /\ \A programCounter \in DOMAIN pcToInstructionIndex :
            pcToInstructionIndex[programCounter] \notin DOMAIN instructionIndexToSourceRange
                => pcsToSourceRange[programCounter] = UndefinedSourceRange

\* a returned table with a program counter that has a range and one that has none
C5_Witness ==
    /\ phase = "returned"
    /\ \E p, q \in DOMAIN pcsToSourceRange :
        /\ pcsToSourceRange[p].k = "range"
        /\ pcsToSourceRange[q] = UndefinedSourceRange

----------------------------------------------------------------------------
(* C6 *)

\* entry k (0-based) was visited, has a fileIndex other than -1 and a text
EntryIsMapped(k) ==
    /\ k + 1 \in Visited
    /\ parsedEntries[k + 1].fileIndex # Num(-1)
    /\ HasOffsetTable(parsedEntries[k + 1].fileIndex)

EndToEndExampleResult ==
    (0 :> [k |-> "range", start |-> Location(1, 0), end |-> Location(1, 10),
           fileName |-> Str(<<"C", ".", "s", "o", "l">>)])

\* C6: in a call that returns, a program counter with instruction index k carries
\* the file name, the start (at offset) and the end (at offset+length) of the
\* resolved entry k when that entry exists and is mapped, and undefined otherwise;
\* so two program counters with one index carry the same value. The end-to-end
\* example gives C.sol from line 1 column 0 to line 1 column 10.
C6_RangeOfProgramCounter ==
    phase = "returned" =>
        /\ \A programCounter \in DOMAIN pcToInstructionIndex :
            LET k == pcToInstructionIndex[programCounter]
            IN  /\ programCounter \in DOMAIN pcsToSourceRange
                /\ pcsToSourceRange[programCounter] =
                    IF EntryIsMapped(k) THEN ExpectedSourceRange(parsedEntries[k + 1])
                    ELSE UndefinedSourceRange
        /\ srcMap = EndToEndExampleSrcMap => pcsToSourceRange = EndToEndExampleResult

\* two program counters share the index of a mapped entry that inherited its file,
\* and whose range ends on another line than it starts
C6_Witness ==
    /\ phase = "returned"
    /\ \E p, q \in DOMAIN pcsToSourceRange :
        /\ p # q
        /\ pcToInstructionIndex[p] = pcToInstructionIndex[q]
        /\ pcToInstructionIndex[p] > 0
        /\ pcsToSourceRange[p].k = "range"
        /\ pcsToSourceRange[p] = pcsToSourceRange[q]
        /\ pcsToSourceRange[p].start.line < pcsToSourceRange[p].end.line
        /\ ~FieldParses(pcToInstructionIndex[p] + 1, 3)

----------------------------------------------------------------------------
(* C7 *)

\* C7: getLocationByOffset returns, for every text, a table whose keys are exactly
\* 0..len(text), key o giving line 1 + the number of newlines before o and the
\* column counted from the last newline before o; key 0 is {1, 0}; for "abc\ndef"
\* key 4 is {2, 0} and key 6 is {2, 2}.
C7_OffsetTable ==
    /\ phase = "index-called" => ENABLED GetLocationByOffset
    /\ phase = "index-returned" =>
        /\ DOMAIN locationByOffset = 0..Len(str)
        /\ \A o \in 0..Len(str) : locationByOffset[o] = ExpectedLocation(str, o)
        /\ locationByOffset[0] = Location(1, 0)
        /\ str = ExampleText =>
            locationByOffset[4] = Location(2, 0) /\ locationByOffset[6] = Location(2, 2)

\* the table of a text with two newlines and a character after each
C7_Witness ==
    /\ phase = "index-returned"
    /\ str = <<"a", "\n", "\n", "a">>
    /\ locationByOffset[4] = Location(3, 1)

----------------------------------------------------------------------------
(* C8 *)

Unmapped(j) == j \in Visited /\ ~InTable(j) /\ ~Threw(j)

----------------------------------------------------------------------------
(* C9 *)

OutOfRange(e) == e.fileIndex # Num(-1) /\ HasOffsetTable(e.fileIndex) /\ ~InRange(e)

\* C9: the entries are checked in order, whatever pcToInstructionIndex holds: no
\* visited entry but one that threw is out of range, a call returns only when every
\* entry of the source map was visited and none is out of range, and a call that
\* throws names the file of the first out-of-range entry.
C9_EagerOrderedValidation ==
    /\ \A j \in Visited : OutOfRange(parsedEntries[j]) <=> Threw(j)
    /\ phase = "returned" =>
        /\ Len(parsedEntries) = Semicolons(srcMap) + 1
        /\ \A j \in Visited : ~OutOfRange(parsedEntries[j])
    /\ phase = "thrown" =>
        /\ parsedEntries # <<>>
        /\ OutOfRange(parsedEntries[Len(parsedEntries)])
        /\ error.fileName =
            Get(sources, parsedEntries[Len(parsedEntries)].fileIndex, UndefinedString)

\* the call threw at an entry no program counter refers to, and the entry after it,
\* which supplies its three fields, is out of range too
C9_Witness ==
    /\ phase = "thrown"
    /\ Len(parsedEntries) >= 2
    /\ Len(parsedEntries) < Len(entries)
    /\ LET next == ParseEntry(entries[Len(parsedEntries) + 1], EmptyObject)
       IN  ~HasUnsetField(next) /\ OutOfRange(next)
    /\ \A p \in DOMAIN pcToInstructionIndex :
        pcToInstructionIndex[p] # Len(parsedEntries) - 1
    /\ DOMAIN pcToInstructionIndex # {}

----------------------------------------------------------------------------
(* C10 *)

\* C10: the locations of every offset table increase strictly with the offset, in
\* (line, column) order; so a range given to an entry of length >= 0 does not start
\* after it ends, and starts where it ends exactly when the length is 0.
C10_StartNotAfterEnd ==
    /\ \A f \in DOMAIN locationByOffsetByFileIndex :
        \A o1, o2 \in DOMAIN locationByOffsetByFileIndex[f] :
            o1 < o2 => LexLess(locationByOffsetByFileIndex[f][o1],
                               locationByOffsetByFileIndex[f][o2])
    /\ \A k \in DOMAIN instructionIndexToSourceRange :
        LET range == instructionIndexToSourceRange[k]
            length == parsedEntries[k + 1].length.n
        IN  length >= 0 =>
                /\ range.start = range.end \/ LexLess(range.start, range.end)
                /\ range.start = range.end <=> length = 0

\* one range that ends on a later line at a column not after its start's, and one
\* range of length 0
C10_Witness ==
    \E k1, k2 \in DOMAIN instructionIndexToSourceRange :
        /\ parsedEntries[k1 + 1].length.n > 0
        /\ instructionIndexToSourceRange[k1].start.line < instructionIndexToSourceRange[k1].end.line
        /\ instructionIndexToSourceRange[k1].start.column >= instructionIndexToSourceRange[k1].end.column
        /\ parsedEntries[k2 + 1].length.n = 0
        /\ instructionIndexToSourceRange[k2].start = instructionIndexToSourceRange[k2].end

====
